---- MODULE Spec2Model ----
(***************************************************************************)
(* State machines of the atomics primitives: the blocking Mutex, the       *)
(* SpinLock, the RwLock, the Arc and the one-shot channel.  Every atomic    *)
(* operation of the source (load, store, swap, compare_exchange,           *)
(* fetch_add, fetch_sub, wait, wake_one, wake_all) is one step of the       *)
(* thread that executes it; plain (non-atomic) reads and writes of the      *)
(* protected value are steps of their own.                                  *)
(***************************************************************************)
EXTENDS Integers, FiniteSets, Sequences, TLC

(* ------------------------------ bounds --------------------------------- *)
\* threads that use the Mutex, and lock/increment/drop cycles of each
MutexThreads == 3
MutexIters == 1
\* iterations of the spin loop of Mutex::lock (SPIN_LOCK_N, scaled down)
SPIN_LOCK_N == 1
\* threads of the SpinLock demonstration and increments under one guard
SpinThreads == 4
SpinIncs == 2

\* threads that use the RwLock, ReadGuards one thread may hold at once, and
\* the width in bits of the state word and of the writer beacon (u32, scaled
\* down so that the reader count can reach its ceiling)
RwThreads == 2
MaxReadGuards == 4
WordBits == 3

\* clones made of one Arc, and the width in bits of its counter (u32, scaled
\* down)
MaxClones == 3
ArcBits == 3
\* payloads a one-shot channel may carry, and read() calls on its Reader
NumValues == 3
MaxReads == 2

\* the message states of the spinning channel (channels/src/main.rs)
EMPTY == 0
READY == 1
READING == 2
READ == 3

MThreads == 1..MutexThreads
\* values of the Arc's scaled counter
ArcWord == 0..(2^ArcBits - 1)
\* the payloads, as strings "1", "2", ...
ChanValues == {ToString(v) : v \in 1..NumValues}
RThreads == 1..RwThreads
\* u32::MAX of the scaled word
U32Max == 2^WordBits - 1
SThreads == 1..SpinThreads

VARIABLES
    \* Mutex (locks/src/lib/mutex.rs)
    mstate,     \* Mutex.state: 0 unlocked, 1 locked, 2 locked with waiters
    mvalue,     \* Mutex.value: the protected counter
    mpc,        \* position of each thread in its lock / increment / drop cycle
    mspin,      \* loop index of the spin loop of lock()
    mlocal,     \* value a thread has read from the counter, not yet written back
    miter,      \* completed cycles of each thread
    \* SpinLock (locks/src/lib/spin_lock.rs, spin-lock/src/main.rs)
    slock,      \* SpinLock.lock
    sdata,      \* SpinLock.data
    spc,        \* position of each thread of main
    slocal,     \* value read by `*g += 1`, not yet written back
    sleft,      \* increments a thread has still to do under its guard
    \* RwLock (locks/src/rwlock.rs)
    rwstate,    \* RwLock.state
    beacon,     \* RwLock.writer_beacon
    rwpc,       \* position of each thread inside read(), write() or a guard drop
    rws,        \* the local `s` of read()
    rwwb,       \* the local `writer_beacon` of write()
    rwe,        \* the `e` of write(): the state its failed compare_exchange saw
    rheld,      \* live ReadGuards of each thread
    wheld,      \* whether the thread holds a live WriteGuard
    rwafter,    \* history: writers that were waiting when the thread's read() began
    rwwrapped,  \* history: a reader's CAS has stored a wrapped s + 2
    \* Arc (arc/src/lib.rs)
    acount,     \* ArcData.count
    alive,      \* handles that exist and are not being dropped
    aclones,    \* clones made so far
    apending,   \* drops that have seen v == 1 and have not yet freed the box
    adestroyed, \* times the box has been freed and the value's destructor run
    agm,        \* result of the last get_mut: "Some", "None", or "none" before any
    agmsole,    \* whether the handle of that get_mut was the only live one
    \* one-shot channel, parking variant (channels/src/oneshot.rs)
    cstate,     \* Channel.state
    cmsg,       \* Channel.message: "uninit" or the value written
    csent,      \* the message given to send, "unsent" before send is called
    cwpc,       \* position of the thread that owns the Writer
    crpc,       \* position of the thread that owns the Reader
    creads,     \* read() calls that have returned
    cgot,       \* what the last read() returned, "nothing" before that
    ctaken,     \* history: times the payload has been moved out of the cell
    cfreed,     \* whether the Channel's storage has been deallocated
    cdtor,      \* times the payload's destructor has run at deallocation
    \* one-shot channel, spinning variant (channels/src/main.rs)
    scstate,    \* Channel.state: EMPTY, READY, READING or READ
    scdata,     \* Channel.data: "uninit" or the value written
    scsent,     \* the message given to send, "unsent" before send is called
    sctmp,      \* the temporary MaybeUninit that send's write() is applied to
    scspc,      \* position of the thread that owns the Sender
    scrpc,      \* position of the thread that owns the Receiver
    screcvs,    \* receive() calls that have returned
    scgot       \* what the last receive() returned, "nothing" before that

mutexVars == <<mstate, mvalue, mpc, mspin, mlocal, miter>>
spinVars == <<slock, sdata, spc, slocal, sleft>>
rwVars == <<rwstate, beacon, rwpc, rws, rwwb, rwe, rheld, wheld, rwafter, rwwrapped>>
arcVars == <<acount, alive, aclones, apending, adestroyed, agm, agmsole>>
chanVars == <<cstate, cmsg, csent, cwpc, crpc, creads, cgot, ctaken, cfreed, cdtor>>
spinChanVars == <<scstate, scdata, scsent, sctmp, scspc, scrpc, screcvs, scgot>>
vars == <<mutexVars, spinVars, rwVars, arcVars, chanVars, spinChanVars>>

\* what the operations of one primitive leave alone: the other primitives
MutexFrame == UNCHANGED <<spinVars, rwVars, arcVars, chanVars, spinChanVars>>
SpinFrame == UNCHANGED <<mutexVars, rwVars, arcVars, chanVars, spinChanVars>>
RwFrame == UNCHANGED <<mutexVars, spinVars, arcVars, chanVars, spinChanVars>>
ArcFrame == UNCHANGED <<mutexVars, spinVars, rwVars, chanVars, spinChanVars>>
ChanFrame == UNCHANGED <<mutexVars, spinVars, rwVars, arcVars, spinChanVars>>
SpinChanFrame == UNCHANGED <<mutexVars, spinVars, rwVars, arcVars, chanVars>>

(* ------------------------------- Mutex --------------------------------- *)
MutexInit ==
    /\ mstate = 0
    /\ mvalue = 0
    /\ mpc = [t \in MThreads |-> "idle"]
    /\ mspin = [t \in MThreads |-> 0]
    /\ mlocal = [t \in MThreads |-> 0]
    /\ miter = [t \in MThreads |-> 0]

\* the body of the test's thread: the next iteration calls lock()
MutexStart(t) ==
    /\ mpc[t] = "idle"
    /\ mpc' = [mpc EXCEPT ![t] = IF miter[t] < MutexIters THEN "fast" ELSE "done"]
    /\ UNCHANGED <<mstate, mvalue, mspin, mlocal, miter>>
    /\ MutexFrame

\* lock(): compare_exchange(0, 1) of the fast path
MutexLockFast(t) ==
    /\ mpc[t] = "fast"
    /\ IF mstate = 0
       THEN /\ mstate' = 1
            /\ mpc' = [mpc EXCEPT ![t] = "held"]
            /\ UNCHANGED mspin
       ELSE /\ mpc' = [mpc EXCEPT ![t] = IF SPIN_LOCK_N > 0 THEN "spin" ELSE "swap"]
            /\ mspin' = [mspin EXCEPT ![t] = 0]
            /\ UNCHANGED mstate
    /\ UNCHANGED <<mvalue, mlocal, miter>>
    /\ MutexFrame

\* lock(): one iteration of `for _ in 0..SPIN_LOCK_N`
MutexLockSpin(t) ==
    /\ mpc[t] = "spin"
    /\ IF mstate = 0
       THEN /\ mstate' = 1
            /\ mpc' = [mpc EXCEPT ![t] = "held"]
            /\ mspin' = [mspin EXCEPT ![t] = 0]
       ELSE /\ UNCHANGED mstate
            /\ IF mspin[t] + 1 < SPIN_LOCK_N
               THEN /\ mspin' = [mspin EXCEPT ![t] = mspin[t] + 1]
                    /\ UNCHANGED mpc
               ELSE /\ mspin' = [mspin EXCEPT ![t] = 0]
                    /\ mpc' = [mpc EXCEPT ![t] = "swap"]
    /\ UNCHANGED <<mvalue, mlocal, miter>>
    /\ MutexFrame

\* faulty variant: the swap's result is ignored and the lock taken
MutexLockSwap_Unchecked(t) ==
    /\ mpc[t] = "swap"
    /\ mstate' = 2
    /\ mpc' = [mpc EXCEPT ![t] = "held"]
    /\ UNCHANGED <<mvalue, mspin, mlocal, miter>>
    /\ MutexFrame

\* lock(): `while self.state.swap(2) != 0`
MutexLockSwap(t) ==
    /\ mpc[t] = "swap"
    /\ mstate' = 2
    /\ mpc' = [mpc EXCEPT ![t] = IF mstate # 0 THEN "wait" ELSE "held"]
    /\ UNCHANGED <<mvalue, mspin, mlocal, miter>>
    /\ MutexFrame

\* faulty variant: a park that blocks whatever the state is
MutexWait_Blind(t) ==
    /\ mpc[t] = "wait"
    /\ mpc' = [mpc EXCEPT ![t] = "parked"]
    /\ UNCHANGED <<mstate, mvalue, mspin, mlocal, miter>>
    /\ MutexFrame

\* lock(): wait(&self.state, 2) blocks only if the state is 2 when it is called
MutexWait(t) ==
    /\ mpc[t] = "wait"
    /\ mpc' = [mpc EXCEPT ![t] = IF mstate = 2 THEN "parked" ELSE "swap"]
    /\ UNCHANGED <<mstate, mvalue, mspin, mlocal, miter>>
    /\ MutexFrame

\* wait() may return without a wake
MutexSpuriousWake(t) ==
    /\ mpc[t] = "parked"
    /\ mpc' = [mpc EXCEPT ![t] = "swap"]
    /\ UNCHANGED <<mstate, mvalue, mspin, mlocal, miter>>
    /\ MutexFrame

\* `*guard += 1`: the read of the counter
MutexRead(t) ==
    /\ mpc[t] = "held"
    /\ mlocal' = [mlocal EXCEPT ![t] = mvalue]
    /\ mpc' = [mpc EXCEPT ![t] = "write"]
    /\ UNCHANGED <<mstate, mvalue, mspin, miter>>
    /\ MutexFrame

\* `*guard += 1`: the write of the counter
MutexWrite(t) ==
    /\ mpc[t] = "write"
    /\ mvalue' = mlocal[t] + 1
    /\ mlocal' = [mlocal EXCEPT ![t] = 0]
    /\ mpc' = [mpc EXCEPT ![t] = "unlock"]
    /\ UNCHANGED <<mstate, mspin, miter>>
    /\ MutexFrame

\* faulty variant: the swap's result is ignored and nobody is woken
MutexUnlock_Silent(t) ==
    /\ mpc[t] = "unlock"
    /\ mstate' = 0
    /\ mpc' = [mpc EXCEPT ![t] = "idle"]
    /\ miter' = [miter EXCEPT ![t] = miter[t] + 1]
    /\ UNCHANGED <<mvalue, mspin, mlocal>>
    /\ MutexFrame

\* guard drop -> unlock(): `self.state.swap(0) == 2`
MutexUnlock(t) ==
    /\ mpc[t] = "unlock"
    /\ mstate' = 0
    /\ IF mstate = 2
       THEN /\ mpc' = [mpc EXCEPT ![t] = "wake"]
            /\ UNCHANGED miter
       ELSE /\ mpc' = [mpc EXCEPT ![t] = "idle"]
            /\ miter' = [miter EXCEPT ![t] = miter[t] + 1]
    /\ UNCHANGED <<mvalue, mspin, mlocal>>
    /\ MutexFrame

\* unlock(): wake_one(&self.state) wakes one parked thread, if there is one
MutexWakeOne(t) ==
    /\ mpc[t] = "wake"
    /\ \/ \E u \in MThreads :
            /\ mpc[u] = "parked"
            /\ mpc' = [mpc EXCEPT ![t] = "idle", ![u] = "swap"]
       \/ /\ \A u \in MThreads : mpc[u] # "parked"
          /\ mpc' = [mpc EXCEPT ![t] = "idle"]
    /\ miter' = [miter EXCEPT ![t] = miter[t] + 1]
    /\ UNCHANGED <<mstate, mvalue, mspin, mlocal>>
    /\ MutexFrame

MutexStep(t) ==
    \/ MutexStart(t)
    \/ MutexLockFast(t)
    \/ MutexLockSpin(t)
    \/ MutexLockSwap(t)
    \/ MutexWait(t)
    \/ MutexRead(t)
    \/ MutexWrite(t)
    \/ MutexUnlock(t)
    \/ MutexWakeOne(t)

MutexNext == \E t \in MThreads : MutexStep(t) \/ MutexSpuriousWake(t)

(* ------------------------------ SpinLock ------------------------------- *)
SpinInit ==
    /\ slock = FALSE
    /\ sdata = 0
    /\ spc = [t \in SThreads |-> "lock"]
    /\ slocal = [t \in SThreads |-> 0]
    /\ sleft = [t \in SThreads |-> SpinIncs]

\* faulty variant: the swap's result is ignored and the guard returned
SpinLockSwap_Unchecked(t) ==
    /\ spc[t] = "lock"
    /\ slock' = TRUE
    /\ spc' = [spc EXCEPT ![t] = "held"]
    /\ UNCHANGED <<sdata, slocal, sleft>>
    /\ SpinFrame

\* lock(): `while self.lock.swap(true)`; a failed swap spins and tries again
SpinLockSwap(t) ==
    /\ spc[t] = "lock"
    /\ slock' = TRUE
    /\ spc' = [spc EXCEPT ![t] = IF slock THEN "lock" ELSE "held"]
    /\ UNCHANGED <<sdata, slocal, sleft>>
    /\ SpinFrame

\* `*g += 1`: the read of the data
SpinRead(t) ==
    /\ spc[t] = "held"
    /\ sleft[t] > 0
    /\ slocal' = [slocal EXCEPT ![t] = sdata]
    /\ spc' = [spc EXCEPT ![t] = "write"]
    /\ UNCHANGED <<slock, sdata, sleft>>
    /\ SpinFrame

\* `*g += 1`: the write of the data
SpinWrite(t) ==
    /\ spc[t] = "write"
    /\ sdata' = slocal[t] + 1
    /\ slocal' = [slocal EXCEPT ![t] = 0]
    /\ sleft' = [sleft EXCEPT ![t] = sleft[t] - 1]
    /\ spc' = [spc EXCEPT ![t] = "held"]
    /\ UNCHANGED slock
    /\ SpinFrame

\* Drop for Guard: store(false) at the end of the closure
SpinGuardDrop(t) ==
    /\ spc[t] = "held"
    /\ sleft[t] = 0
    /\ slock' = FALSE
    /\ spc' = [spc EXCEPT ![t] = "done"]
    /\ UNCHANGED <<sdata, slocal, sleft>>
    /\ SpinFrame

SpinNext ==
    \E t \in SThreads :
        \/ SpinLockSwap(t)
        \/ SpinRead(t)
        \/ SpinWrite(t)
        \/ SpinGuardDrop(t)

\* SpinLock::unlock(), the public method: store(false, Release).  It takes
\* &self and no guard, so any thread may call it at any point, whoever holds
\* the lock; the caller goes on where it was.
SpinUnlock(t) ==
    /\ slock' = FALSE
    /\ UNCHANGED <<sdata, spc, slocal, sleft>>
    /\ SpinFrame

\* the threads also call unlock() directly
SpinUnlockNext == SpinNext \/ \E t \in SThreads : SpinUnlock(t)

(* ------------------------------- RwLock -------------------------------- *)
RwInit ==
    /\ rwstate = 0
    /\ beacon = 0
    /\ rwpc = [t \in RThreads |-> "idle"]
    /\ rws = [t \in RThreads |-> 0]
    /\ rwwb = [t \in RThreads |-> 0]
    /\ rwe = [t \in RThreads |-> 0]
    /\ rheld = [t \in RThreads |-> 0]
    /\ wheld = [t \in RThreads |-> FALSE]
    /\ rwafter = [t \in RThreads |-> {}]
    /\ rwwrapped = FALSE

\* a thread that is inside write() after its compare_exchange has failed; it
\* failed on live readers when the state it saw, rwe, is even
RwWriterWaiting(t) == rwpc[t] \in {"w_loadb", "w_check", "w_wait", "w_parked", "w_retry"}

\* read(): `let mut s = self.state.load(Acquire)`
RwReadLoad(t) ==
    /\ rwpc[t] = "idle"
    /\ ~wheld[t]
    /\ rheld[t] < MaxReadGuards
    /\ rws' = [rws EXCEPT ![t] = rwstate]
    /\ rwpc' = [rwpc EXCEPT ![t] = "r_try"]
    /\ rwafter' = [rwafter EXCEPT ![t] =
                      {w \in RThreads : RwWriterWaiting(w) /\ rwe[w] % 2 = 0}]
    /\ UNCHANGED <<rwe, rwstate, beacon, rwwb, rheld, wheld, rwwrapped>>
    /\ RwFrame

\* the outcome of read()'s compare_exchange(s, new) and of the `if s % 2 == 1`
\* that follows it
RwReadExchange(t, new) ==
    IF rwstate = rws[t]
    THEN /\ rwstate' = new
         /\ rheld' = [rheld EXCEPT ![t] = rheld[t] + 1]
         /\ rws' = [rws EXCEPT ![t] = 0]
         /\ rwpc' = [rwpc EXCEPT ![t] = "idle"]
         /\ rwafter' = [rwafter EXCEPT ![t] = {}]
    ELSE /\ rws' = [rws EXCEPT ![t] = rwstate]
         /\ rwpc' = [rwpc EXCEPT ![t] = IF rwstate % 2 = 1 THEN "r_wait" ELSE "r_try"]
         /\ UNCHANGED <<rwstate, rheld, rwafter>>

\* read(): `if s % 2 == 0 { assert_ne!(s, u32::MAX - 2); compare_exchange(s, s + 2) }`
\* `s + 2` is a plain u32 addition: with s = u32::MAX - 1 it panics where
\* overflow checks are compiled in and wraps to 0 where they are not.
RwReadCas(t) ==
    /\ rwpc[t] = "r_try"
    /\ rws[t] % 2 = 0
    /\ IF rws[t] = U32Max - 2
       THEN /\ rwpc' = [rwpc EXCEPT ![t] = "panic_too_many"]
            /\ UNCHANGED <<rwstate, rws, rheld, rwafter, rwwrapped>>
       ELSE IF rws[t] + 2 > U32Max
       THEN \/ /\ rwpc' = [rwpc EXCEPT ![t] = "panic_overflow"]
               /\ UNCHANGED <<rwstate, rws, rheld, rwafter, rwwrapped>>
            \/ /\ RwReadExchange(t, (rws[t] + 2) % (U32Max + 1))
               /\ rwwrapped' = (rwwrapped \/ rwstate = rws[t])
       ELSE /\ RwReadExchange(t, rws[t] + 2)
            /\ UNCHANGED rwwrapped
    /\ UNCHANGED <<rwe, beacon, rwwb, wheld>>
    /\ RwFrame

\* read(): `if s % 2 == 1` reached with an odd s
RwReadOdd(t) ==
    /\ rwpc[t] = "r_try"
    /\ rws[t] % 2 = 1
    /\ rwpc' = [rwpc EXCEPT ![t] = "r_wait"]
    /\ UNCHANGED <<rwe, rwstate, beacon, rws, rwwb, rheld, wheld, rwafter, rwwrapped>>
    /\ RwFrame

\* faulty variant: a park that blocks whatever the state is
RwReadWait_Blind(t) ==
    /\ rwpc[t] = "r_wait"
    /\ rwpc' = [rwpc EXCEPT ![t] = "r_parked"]
    /\ UNCHANGED <<rwe, rwstate, beacon, rws, rwwb, rheld, wheld, rwafter, rwwrapped>>
    /\ RwFrame

\* read(): wait(&self.state, u32::MAX) blocks only if the state is u32::MAX
RwReadWait(t) ==
    /\ rwpc[t] = "r_wait"
    /\ rwpc' = [rwpc EXCEPT ![t] = IF rwstate = U32Max THEN "r_parked" ELSE "r_load"]
    /\ UNCHANGED <<rwe, rwstate, beacon, rws, rwwb, rheld, wheld, rwafter, rwwrapped>>
    /\ RwFrame

\* read(): `s = self.state.load(Acquire)` after the wait
RwReadReload(t) ==
    /\ rwpc[t] = "r_load"
    /\ rws' = [rws EXCEPT ![t] = rwstate]
    /\ rwpc' = [rwpc EXCEPT ![t] = "r_try"]
    /\ UNCHANGED <<rwe, rwstate, beacon, rwwb, rheld, wheld, rwafter, rwwrapped>>
    /\ RwFrame

\* write() is called
RwWriteCall(t) ==
    /\ rwpc[t] = "idle"
    /\ ~wheld[t]
    /\ rheld[t] = 0
    /\ rwpc' = [rwpc EXCEPT ![t] = "w_cas"]
    /\ UNCHANGED <<rwe, rwstate, beacon, rws, rwwb, rheld, wheld, rwafter, rwwrapped>>
    /\ RwFrame

\* write(): `while let Err(e) = compare_exchange(0, u32::MAX)`
RwWriteCas(t) ==
    /\ rwpc[t] \in {"w_cas", "w_retry"}
    /\ IF rwstate = 0
       THEN /\ rwstate' = U32Max
            /\ wheld' = [wheld EXCEPT ![t] = TRUE]
            /\ rwpc' = [rwpc EXCEPT ![t] = "idle"]
            /\ rwwb' = [rwwb EXCEPT ![t] = 0]
            /\ rwe' = [rwe EXCEPT ![t] = 0]
            /\ rwafter' = [u \in RThreads |-> rwafter[u] \ {t}]
       ELSE /\ rwpc' = [rwpc EXCEPT ![t] = "w_loadb"]
            /\ rwe' = [rwe EXCEPT ![t] = rwstate]
            /\ UNCHANGED <<rwstate, wheld, rwwb, rwafter>>
    /\ UNCHANGED <<beacon, rws, rheld, rwwrapped>>
    /\ RwFrame

\* write(): `let writer_beacon = self.state.load(Acquire)`
RwWriteLoadBeacon(t) ==
    /\ rwpc[t] = "w_loadb"
    /\ rwwb' = [rwwb EXCEPT ![t] = rwstate]
    /\ rwpc' = [rwpc EXCEPT ![t] = "w_check"]
    /\ UNCHANGED <<rwe, rwstate, beacon, rws, rheld, wheld, rwafter, rwwrapped>>
    /\ RwFrame

\* write(): `if self.state.load(Acquire) != 0`
RwWriteCheck(t) ==
    /\ rwpc[t] = "w_check"
    /\ rwpc' = [rwpc EXCEPT ![t] = IF rwstate # 0 THEN "w_wait" ELSE "w_retry"]
    /\ UNCHANGED <<rwe, rwstate, beacon, rws, rwwb, rheld, wheld, rwafter, rwwrapped>>
    /\ RwFrame

\* write(): wait(&self.writer_beacon, writer_beacon) blocks only if the beacon
\* holds the expected value
RwWriteWait(t) ==
    /\ rwpc[t] = "w_wait"
    /\ rwpc' = [rwpc EXCEPT ![t] = IF beacon = rwwb[t] THEN "w_parked" ELSE "w_retry"]
    /\ UNCHANGED <<rwe, rwstate, beacon, rws, rwwb, rheld, wheld, rwafter, rwwrapped>>
    /\ RwFrame

\* wait() may return without a wake
RwSpuriousWake(t) ==
    /\ rwpc[t] \in {"r_parked", "w_parked"}
    /\ rwpc' = [rwpc EXCEPT ![t] = IF rwpc[t] = "r_parked" THEN "r_load" ELSE "w_retry"]
    /\ UNCHANGED <<rwe, rwstate, beacon, rws, rwwb, rheld, wheld, rwafter, rwwrapped>>
    /\ RwFrame

\* wake_one(&writer_beacon) by thread t, which goes on at `next`
RwWakeOneWriter(t, next) ==
    \/ \E w \in RThreads :
         /\ rwpc[w] = "w_parked"
         /\ rwpc' = [rwpc EXCEPT ![t] = next, ![w] = "w_retry"]
    \/ /\ \A w \in RThreads : rwpc[w] # "w_parked"
       /\ rwpc' = [rwpc EXCEPT ![t] = next]

\* Drop for ReadGuard: `self.lock.state.fetch_sub(2, Acquire) == 3`
RwReadDrop(t) ==
    /\ rwpc[t] = "idle"
    /\ rheld[t] > 0
    /\ rwstate' = (rwstate - 2) % (U32Max + 1)
    /\ rheld' = [rheld EXCEPT ![t] = rheld[t] - 1]
    /\ rwpc' = [rwpc EXCEPT ![t] = IF rwstate = 3 THEN "rd_inc" ELSE "idle"]
    /\ UNCHANGED <<rwe, beacon, rws, rwwb, wheld, rwafter, rwwrapped>>
    /\ RwFrame

\* Drop for ReadGuard: writer_beacon.fetch_add(1, Release)
RwReadDropBeacon(t) ==
    /\ rwpc[t] = "rd_inc"
    /\ beacon' = (beacon + 1) % (U32Max + 1)
    /\ rwpc' = [rwpc EXCEPT ![t] = "rd_wake"]
    /\ UNCHANGED <<rwe, rwstate, rws, rwwb, rheld, wheld, rwafter, rwwrapped>>
    /\ RwFrame

\* Drop for ReadGuard: wake_one(&writer_beacon)
RwReadDropWake(t) ==
    /\ rwpc[t] = "rd_wake"
    /\ RwWakeOneWriter(t, "idle")
    /\ UNCHANGED <<rwe, rwstate, beacon, rws, rwwb, rheld, wheld, rwafter, rwwrapped>>
    /\ RwFrame

\* Drop for WriteGuard: state.store(0, Release)
RwWriteDrop(t) ==
    /\ rwpc[t] = "idle"
    /\ wheld[t]
    /\ rwstate' = 0
    /\ wheld' = [wheld EXCEPT ![t] = FALSE]
    /\ rwpc' = [rwpc EXCEPT ![t] = "wd_inc"]
    /\ UNCHANGED <<rwe, beacon, rws, rwwb, rheld, rwafter, rwwrapped>>
    /\ RwFrame

\* Drop for WriteGuard: writer_beacon.fetch_add(1, Release)
RwWriteDropBeacon(t) ==
    /\ rwpc[t] = "wd_inc"
    /\ beacon' = (beacon + 1) % (U32Max + 1)
    /\ rwpc' = [rwpc EXCEPT ![t] = "wd_wake"]
    /\ UNCHANGED <<rwe, rwstate, rws, rwwb, rheld, wheld, rwafter, rwwrapped>>
    /\ RwFrame

\* Drop for WriteGuard: wake_one(&writer_beacon)
RwWriteDropWakeOne(t) ==
    /\ rwpc[t] = "wd_wake"
    /\ RwWakeOneWriter(t, "wd_wakeall")
    /\ UNCHANGED <<rwe, rwstate, beacon, rws, rwwb, rheld, wheld, rwafter, rwwrapped>>
    /\ RwFrame

\* Drop for WriteGuard: wake_all(&state)
RwWriteDropWakeAll(t) ==
    /\ rwpc[t] = "wd_wakeall"
    /\ rwpc' = [u \in RThreads |->
                  IF u = t THEN "idle"
                  ELSE IF rwpc[u] = "r_parked" THEN "r_load" ELSE rwpc[u]]
    /\ UNCHANGED <<rwe, rwstate, beacon, rws, rwwb, rheld, wheld, rwafter, rwwrapped>>
    /\ RwFrame

RwStep(t) ==
    \/ RwReadLoad(t)
    \/ RwReadCas(t)
    \/ RwReadOdd(t)
    \/ RwReadWait(t)
    \/ RwReadReload(t)
    \/ RwWriteCall(t)
    \/ RwWriteCas(t)
    \/ RwWriteLoadBeacon(t)
    \/ RwWriteCheck(t)
    \/ RwWriteWait(t)
    \/ RwReadDrop(t)
    \/ RwReadDropBeacon(t)
    \/ RwReadDropWake(t)
    \/ RwWriteDrop(t)
    \/ RwWriteDropBeacon(t)
    \/ RwWriteDropWakeOne(t)
    \/ RwWriteDropWakeAll(t)

RwNext == \E t \in RThreads : RwStep(t) \/ RwSpuriousWake(t)

\* a step of a thread that is inside read(), write() or a guard drop
RwInsideStep(t) == rwpc[t] # "idle" /\ RwStep(t)

\* read(): the compare_exchange(s, s + 2) wins and read() returns its guard
RwReadAdmit(t) == RwReadCas(t) /\ rheld'[t] > rheld[t]

(* --------------------------------- Arc --------------------------------- *)
\* Arc::new: one handle, `count: AtomicU32::new(0)`
ArcInit ==
    /\ acount = 0
    /\ alive = 1
    /\ aclones = 0
    /\ apending = 0
    /\ adestroyed = 0
    /\ agm = "none"
    /\ agmsole = FALSE

\* what an access to ArcData.count reads: the counter, or anything at all once
\* the box has been freed (a use after free)
ArcCountRead == IF adestroyed > 0 THEN ArcWord ELSE {acount}

\* Clone for Arc: count.fetch_add(1, Acquire)
ArcClone ==
    /\ alive > 0
    /\ aclones < MaxClones
    /\ \E v \in ArcCountRead : acount' = (v + 1) % (2^ArcBits)
    /\ alive' = alive + 1
    /\ aclones' = aclones + 1
    /\ UNCHANGED <<apending, adestroyed, agm, agmsole>>
    /\ ArcFrame

\* Drop for Arc: `let v = count.fetch_sub(1, Acquire)` and the test `v == 1`
ArcDrop ==
    /\ alive > 0
    /\ \E v \in ArcCountRead :
         /\ acount' = (v - 1) % (2^ArcBits)
         /\ apending' = IF v = 1 THEN apending + 1 ELSE apending
    /\ alive' = alive - 1
    /\ UNCHANGED <<aclones, adestroyed, agm, agmsole>>
    /\ ArcFrame

\* Drop for Arc: `drop(Box::from_raw(self.ptr.as_ptr()))`
ArcDealloc ==
    /\ apending > 0
    /\ apending' = apending - 1
    /\ adestroyed' = adestroyed + 1
    /\ UNCHANGED <<acount, alive, aclones, agm, agmsole>>
    /\ ArcFrame

\* Arc::get_mut: `count.load(Acquire) == 1`
ArcGetMut ==
    /\ alive > 0
    /\ \E v \in ArcCountRead : agm' = IF v = 1 THEN "Some" ELSE "None"
    /\ agmsole' = (alive = 1)
    /\ UNCHANGED <<acount, alive, aclones, apending, adestroyed>>
    /\ ArcFrame

ArcNext == ArcClone \/ ArcDrop \/ ArcDealloc \/ ArcGetMut

(* ---------------------- one-shot channel (parking) --------------------- *)
\* channel(): state 0, message uninitialised, a Reader and a Writer
ChanInit ==
    /\ cstate = 0
    /\ cmsg = "uninit"
    /\ csent = "unsent"
    /\ cwpc = "ready"
    /\ crpc = "idle"
    /\ creads = 0
    /\ cgot = "nothing"
    /\ ctaken = 0
    /\ cfreed = FALSE
    /\ cdtor = 0

\* Writer::send(message): compare_exchange(0, 1, Acquire, Relaxed), panic on Err
ChanSendCas(v) ==
    /\ cwpc = "ready"
    /\ csent' = v
    /\ IF cstate = 0
       THEN cstate' = 1 /\ cwpc' = "write"
       ELSE cwpc' = "panicked" /\ UNCHANGED cstate
    /\ UNCHANGED <<cmsg, crpc, creads, cgot, ctaken, cfreed, cdtor>>
    /\ ChanFrame

\* Writer::send: `(*self.channel.message.get()).write(message)`
ChanSendWrite ==
    /\ cwpc = "write"
    /\ cmsg' = csent
    /\ cwpc' = "wake"
    /\ UNCHANGED <<cstate, csent, crpc, creads, cgot, ctaken, cfreed, cdtor>>
    /\ ChanFrame

\* Writer::send: wake_all(&self.channel.state)
ChanSendWakeAll ==
    /\ cwpc = "wake"
    /\ cwpc' = "done"
    /\ crpc' = IF crpc = "parked" THEN "load" ELSE crpc
    /\ UNCHANGED <<cstate, cmsg, csent, creads, cgot, ctaken, cfreed, cdtor>>
    /\ ChanFrame

\* Reader::read is called
ChanReadCall ==
    /\ crpc = "idle"
    /\ creads < MaxReads
    /\ crpc' = "load"
    /\ UNCHANGED <<cstate, cmsg, csent, cwpc, creads, cgot, ctaken, cfreed, cdtor>>
    /\ ChanFrame

\* Reader::read: `while self.channel.state.load(Acquire) != 1`
ChanReadLoad ==
    /\ crpc = "load"
    /\ crpc' = IF cstate # 1 THEN "wait" ELSE "take"
    /\ UNCHANGED <<cstate, cmsg, csent, cwpc, creads, cgot, ctaken, cfreed, cdtor>>
    /\ ChanFrame

\* faulty variant: a park that blocks whatever the state is
ChanReadWait_Blind ==
    /\ crpc = "wait"
    /\ crpc' = "parked"
    /\ UNCHANGED <<cstate, cmsg, csent, cwpc, creads, cgot, ctaken, cfreed, cdtor>>
    /\ ChanFrame

\* Reader::read: wait(&self.channel.state, 0) blocks only if the state is 0
ChanReadWait ==
    /\ crpc = "wait"
    /\ crpc' = IF cstate = 0 THEN "parked" ELSE "load"
    /\ UNCHANGED <<cstate, cmsg, csent, cwpc, creads, cgot, ctaken, cfreed, cdtor>>
    /\ ChanFrame

\* wait() may return without a wake
ChanSpuriousWake ==
    /\ crpc = "parked"
    /\ crpc' = "load"
    /\ UNCHANGED <<cstate, cmsg, csent, cwpc, creads, cgot, ctaken, cfreed, cdtor>>
    /\ ChanFrame

\* Reader::read: `(*self.channel.message.get()).assume_init_read()`, a bitwise
\* copy that leaves the cell as it is; of an unwritten cell it is undefined
\* and yields any value or garbage
ChanReadTake ==
    /\ crpc = "take"
    /\ IF cmsg = "uninit"
       THEN cgot' \in ChanValues \cup {"garbage"} /\ UNCHANGED ctaken
       ELSE cgot' = cmsg /\ ctaken' = ctaken + 1
    /\ creads' = creads + 1
    /\ crpc' = "idle"
    /\ UNCHANGED <<cstate, cmsg, csent, cwpc, cfreed, cdtor>>
    /\ ChanFrame

\* The Writer goes away: at the end of send(self, ..), which consumes it, or
\* dropped unused.  Drop for Writer is empty; its Arc<Channel> is released,
\* and the release of the last of the two handles deallocates the Channel.
\* Channel has no Drop of its own and its message is a MaybeUninit<T>, whose
\* content is never dropped: no destructor of the payload runs.
ChanWriterDrop ==
    /\ cwpc \in {"ready", "done", "panicked"}
    /\ cwpc' = "dropped"
    /\ cfreed' = (crpc = "dropped")
    /\ UNCHANGED <<cstate, cmsg, csent, crpc, creads, cgot, ctaken, cdtor>>
    /\ ChanFrame

\* The Reader is dropped (read(&self) borrows it, so not during a read):
\* Drop for Reader is empty, its Arc<Channel> is released as for the Writer
ChanReaderDrop ==
    /\ crpc = "idle"
    /\ crpc' = "dropped"
    /\ cfreed' = (cwpc = "dropped")
    /\ UNCHANGED <<cstate, cmsg, csent, cwpc, creads, cgot, ctaken, cdtor>>
    /\ ChanFrame

\* the steps of read() once it has been called
ChanReadStep == ChanReadLoad \/ ChanReadWait \/ ChanReadTake

\* the steps of send() once its compare_exchange has succeeded
ChanSendStep == ChanSendWrite \/ ChanSendWakeAll

ChanNext ==
    \/ \E v \in ChanValues : ChanSendCas(v)
    \/ ChanSendStep
    \/ ChanReadCall
    \/ ChanReadStep
    \/ ChanSpuriousWake
    \/ ChanWriterDrop
    \/ ChanReaderDrop

(* --------------------- one-shot channel (spinning) --------------------- *)
\* channel(): state 0, data uninitialised, a Sender and a Receiver
SpinChanInit ==
    /\ scstate = EMPTY
    /\ scdata = "uninit"
    /\ scsent = "unsent"
    /\ sctmp = "uninit"
    /\ scspc = "ready"
    /\ scrpc = "idle"
    /\ screcvs = 0
    /\ scgot = "nothing"

\* Sender::send(message): `unsafe { *self.channel.data.get() }.write(message)`.
\* The block `{ *ptr }` is a value expression: it yields a temporary copy of
\* the cell, and write() initialises that temporary; the shared cell stays
\* as it was.
SpinChanSendWrite(v) ==
    /\ scspc = "ready"
    /\ scsent' = v
    /\ sctmp' = v
    /\ scspc' = "store"
    /\ UNCHANGED <<scstate, scdata, scrpc, screcvs, scgot>>
    /\ SpinChanFrame

\* Sender::send: state.store(READY, Release)
SpinChanSendStore ==
    /\ scspc = "store"
    /\ scstate' = READY
    /\ scspc' = "done"
    /\ UNCHANGED <<scdata, scsent, sctmp, scrpc, screcvs, scgot>>
    /\ SpinChanFrame

\* Receiver::receive is called
SpinChanReceiveCall ==
    /\ scrpc = "idle"
    /\ screcvs < MaxReads
    /\ scrpc' = "cas"
    /\ UNCHANGED <<scstate, scdata, scsent, sctmp, scspc, screcvs, scgot>>
    /\ SpinChanFrame

\* Receiver::receive: `while compare_exchange(READY, READING, ..).is_err()`,
\* one iteration
SpinChanReceiveCas ==
    /\ scrpc = "cas"
    /\ IF scstate = READY
       THEN scstate' = READING /\ scrpc' = "take"
       ELSE UNCHANGED <<scstate, scrpc>>
    /\ UNCHANGED <<scdata, scsent, sctmp, scspc, screcvs, scgot>>
    /\ SpinChanFrame

\* Receiver::receive: `&(*self.channel.data.get()).assume_init()` and return;
\* of an unwritten cell it is undefined and yields any value or garbage.  The
\* state is left at READING.
SpinChanReceiveTake ==
    /\ scrpc = "take"
    /\ IF scdata = "uninit"
       THEN scgot' \in ChanValues \cup {"garbage"}
       ELSE scgot' = scdata
    /\ screcvs' = screcvs + 1
    /\ scrpc' = "idle"
    /\ UNCHANGED <<scstate, scdata, scsent, sctmp, scspc>>
    /\ SpinChanFrame

\* the Sender goes away: at the end of send(self, ..), which consumes it, or
\* dropped unused
SpinChanSenderDrop ==
    /\ scspc \in {"ready", "done"}
    /\ scspc' = "dropped"
    /\ UNCHANGED <<scstate, scdata, scsent, sctmp, scrpc, screcvs, scgot>>
    /\ SpinChanFrame

\* the Receiver is dropped (not during a receive, which borrows it)
SpinChanReceiverDrop ==
    /\ scrpc = "idle"
    /\ scrpc' = "dropped"
    /\ UNCHANGED <<scstate, scdata, scsent, sctmp, scspc, screcvs, scgot>>
    /\ SpinChanFrame

SpinChanNext ==
    \/ \E v \in ChanValues : SpinChanSendWrite(v)
    \/ SpinChanSendStore
    \/ SpinChanReceiveCall
    \/ SpinChanReceiveCas
    \/ SpinChanReceiveTake
    \/ SpinChanSenderDrop
    \/ SpinChanReceiverDrop

(* --------------------------- memory orderings -------------------------- *)
\* The interleaving semantics of this module is sequentially consistent; the
\* Ordering arguments the source gives to each atomic operation are carried
\* as a label of the operation: <<ordering>> for a load, store, swap or
\* fetch_*, <<success, failure>> for a compare_exchange.
MutexOrdering ==
    [ lock_fast |-> <<"Acquire", "Relaxed">>,
      lock_spin |-> <<"Acquire", "Relaxed">>,
      lock_swap |-> <<"Acquire">>,
      unlock_swap |-> <<"Release">> ]

SpinOrdering ==
    [ lock_swap |-> <<"Acquire">>,
      unlock_store |-> <<"Release">>,
      guard_drop_store |-> <<"Release">> ]

RwOrdering ==
    [ read_load |-> <<"Acquire">>,
      read_cas |-> <<"Acquire", "Relaxed">>,
      read_reload |-> <<"Acquire">>,
      write_cas |-> <<"Acquire", "Relaxed">>,
      write_load_beacon |-> <<"Acquire">>,
      write_check |-> <<"Acquire">>,
      read_drop_sub |-> <<"Acquire">>,
      read_drop_beacon |-> <<"Release">>,
      write_drop_store |-> <<"Release">>,
      write_drop_beacon |-> <<"Release">> ]

ArcOrdering ==
    [ get_mut_load |-> <<"Acquire">>,
      clone_add |-> <<"Acquire">>,
      drop_sub |-> <<"Acquire">> ]

ChanOrdering ==
    [ read_load |-> <<"Acquire">>,
      send_cas |-> <<"Acquire", "Relaxed">> ]

\* the ordering of the operation when it takes effect (a CAS: when it wins)
HasRelease(o) == o[1] \in {"Release", "AcqRel", "SeqCst"}

HasAcquire(o) == o[1] \in {"Acquire", "AcqRel", "SeqCst"}

\* no operation of the table is Relaxed when it takes effect
RelaxedOnlyOnFailure(table) == \A op \in DOMAIN table : table[op][1] # "Relaxed"

(* --------------------------- specifications ---------------------------- *)
Init == MutexInit /\ SpinInit /\ RwInit /\ ArcInit /\ ChanInit /\ SpinChanInit

SpecMutex == Init /\ [][MutexNext]_vars

\* threads are scheduled fairly: a thread that can take a step of its code
\* eventually takes one (a spurious wake-up is never owed)
SpecMutexFair == SpecMutex /\ \A t \in MThreads : WF_vars(MutexStep(t))

SpecSpin == Init /\ [][SpinNext]_vars

SpecSpinUnlock == Init /\ [][SpinUnlockNext]_vars

SpecRw == Init /\ [][RwNext]_vars

\* a thread inside an operation is scheduled fairly and the holder of a
\* WriteGuard drops it; calling read or write, dropping a ReadGuard and a
\* spurious wake-up are never owed.  A reader whose compare_exchange could
\* win again and again is not made to lose it forever by the other threads.
SpecRwFair ==
    /\ SpecRw
    /\ \A t \in RThreads : WF_vars(RwInsideStep(t)) /\ WF_vars(RwWriteDrop(t))
    /\ \A t \in RThreads : SF_vars(RwReadAdmit(t))

SpecArc == Init /\ [][ArcNext]_vars

SpecChan == Init /\ [][ChanNext]_vars

\* both threads are scheduled fairly inside read() and send(); calling read
\* or send, dropping a handle and a spurious wake-up are never owed
SpecChanFair == SpecChan /\ WF_vars(ChanReadStep) /\ WF_vars(ChanSendStep)

SpecSpinChan == Init /\ [][SpinChanNext]_vars

Next == MutexNext \/ SpinUnlockNext \/ RwNext \/ ArcNext \/ ChanNext \/ SpinChanNext

Spec == Init /\ [][Next]_vars

(* -------------------------------- claims ------------------------------- *)
MutexGuardLive(t) == mpc[t] \in {"held", "write", "unlock"}

\* C1: at most one thread holds a live MutexGuard, and when every thread has
\* finished its MutexIters increments the counter is MutexThreads * MutexIters.
C1_MutexMutualExclusion ==
    /\ Cardinality({t \in MThreads : MutexGuardLive(t)}) <= 1
    /\ (\A t \in MThreads : mpc[t] = "done") => mvalue = MutexThreads * MutexIters

C1_Witness ==
    /\ \A t \in MThreads : mpc[t] = "done"
    /\ mvalue = MutexThreads * MutexIters

\* C2: under fair scheduling no thread stays parked in lock() forever: every
\* parked thread leaves the park, and every thread finishes its cycles.
C2_MutexNoMissedWakeup ==
    /\ \A t \in MThreads : (mpc[t] = "parked") ~> (mpc[t] # "parked")
    /\ <>[](\A t \in MThreads : mpc[t] = "done")

C2_Witness ==
    \E t, u \in MThreads : mpc[t] = "parked" /\ mpc[u] = "wake" /\ mstate = 0

SpinGuardLive(t) == spc[t] \in {"held", "write"}

\* C3: at most one SpinLock Guard is live, and when every thread has dropped
\* its guard the data is the sum of the increments, SpinThreads * SpinIncs.
C3_SpinMutualExclusion ==
    /\ Cardinality({t \in SThreads : SpinGuardLive(t)}) <= 1
    /\ (\A t \in SThreads : spc[t] = "done") => sdata = SpinThreads * SpinIncs

C3_Witness ==
    /\ \A t \in SThreads : spc[t] = "done"
    /\ sdata = SpinThreads * SpinIncs

\* no live WriteGuard coexists with a live ReadGuard or another WriteGuard
RwExclusive ==
    \A t \in RThreads :
        wheld[t] => /\ \A u \in RThreads : rheld[u] = 0
                    /\ \A u \in RThreads \ {t} : ~wheld[u]

\* C4: in every reachable state a live WriteGuard coexists neither with a
\* live ReadGuard nor with a second live WriteGuard.
C4_RwExclusivity == RwExclusive

\* exclusivity is lost only after a reader's s + 2 has wrapped (C7)
RwExclusiveUntilWrapped == rwwrapped \/ RwExclusive

\* C5: a read() that began while a writer was waiting for readers to leave
\* returns no ReadGuard before that writer has acquired the lock (stated for
\* the runs in which the reader count has not wrapped).
C5_NoReaderPastWaitingWriter ==
    [][\A t \in RThreads :
          (~rwwrapped /\ rheld'[t] > rheld[t]) => rwafter[t] = {}]_vars

\* C6: no writer is parked on the writer beacon while the state word is 0,
\* every guard has been dropped and no other thread is inside an operation
\* (so that no wake of the beacon is still to be issued); stated for the runs
\* in which the reader count has not wrapped.
C6_NoWriterLeftAsleep ==
    ~ \E w \in RThreads :
        /\ rwpc[w] = "w_parked"
        /\ rwstate = 0
        /\ ~rwwrapped
        /\ \A u \in RThreads \ {w} : rwpc[u] = "idle" /\ rheld[u] = 0 /\ ~wheld[u]

\* C7: a read() that finds the largest reader count dies on the "Too many
\* readers" assertion: no read() computes s + 2 from u32::MAX - 1, neither
\* overflowing nor storing the wrapped sum.
C7_TooManyReadersIsFatal ==
    /\ ~rwwrapped
    /\ \A t \in RThreads : rwpc[t] # "panic_overflow"

\* C8: the value is destroyed exactly once and only at the last drop: never
\* while a handle is live, never twice, and once all handles are dropped and
\* every drop has returned it has been destroyed.
C8_ArcDestroyedOnceAtLastDrop ==
    /\ adestroyed > 0 => alive = 0
    /\ adestroyed <= 1
    /\ (alive = 0 /\ apending = 0) => adestroyed = 1

\* C9: get_mut returns Some exactly when its handle is the only live one.
C9_GetMutIffSoleOwner ==
    agm # "none" => (agm = "Some" <=> agmsole)

\* C10: the channel's state is READY (1) only once the payload is in the
\* cell, and a read() returns exactly the value sent.
C10_ChanDeliversValueSent ==
    /\ cstate = 1 => cmsg # "uninit"
    /\ cgot # "nothing" => cgot = csent

\* C11: the payload is moved out of the cell at most once: once a read() has
\* returned the value, no later read() of the channel returns it again.
C11_PayloadReadAtMostOnce == ctaken <= 1

\* C12: when the storage has been deallocated, the destructor of a payload
\* that was written and never moved out has run exactly once, and no
\* destructor has run for a payload that was moved out or never written.
C12_TeardownDropsUnreadPayload ==
    cfreed => cdtor = (IF cmsg # "uninit" /\ ctaken = 0 THEN 1 ELSE 0)

\* the Reader is inside read()
ChanInRead == crpc \in {"load", "wait", "parked", "take"}

\* send() has run to its end
ChanSendCompleted == cwpc = "done" \/ (cwpc = "dropped" /\ cmsg # "uninit")

\* C13: under fair scheduling a Reader that is inside read() when send() has
\* completed returns from read(), wherever in its load / park loop the steps
\* of send() found it.
C13_ReadNoMissedWakeup == (ChanInRead /\ ChanSendCompleted) ~> (crpc = "idle")

\* the Reader is parked with the state already 1, send's wake_all still to come
C13_Witness == crpc = "parked" /\ cwpc = "wake" /\ cstate = 1

\* C14: every step that publishes (Mutex unlock, SpinLock guard drop, the
\* decrement of a ReadGuard drop, the store of a WriteGuard drop, the send's
\* transition of the channel to READY, the decrement of an Arc drop) is an
\* atomic operation with release ordering, every step that acquires (the
\* winning CAS or swap of a lock, the channel read's load) one with acquire
\* ordering, and Relaxed is the ordering of CAS failure branches only.
C14_ReleaseAcquireDiscipline ==
    [][/\ (\E t \in MThreads : MutexUnlock(t)) => HasRelease(MutexOrdering.unlock_swap)
       /\ (\E t \in SThreads : SpinGuardDrop(t)) => HasRelease(SpinOrdering.guard_drop_store)
       /\ (\E t \in RThreads : RwReadDrop(t)) => HasRelease(RwOrdering.read_drop_sub)
       /\ (\E t \in RThreads : RwWriteDrop(t)) => HasRelease(RwOrdering.write_drop_store)
       /\ (\E v \in ChanValues : ChanSendCas(v)) => HasRelease(ChanOrdering.send_cas)
       /\ ArcDrop => HasRelease(ArcOrdering.drop_sub)
       /\ (\E t \in MThreads : MutexLockFast(t)) => HasAcquire(MutexOrdering.lock_fast)
       /\ (\E t \in MThreads : MutexLockSpin(t)) => HasAcquire(MutexOrdering.lock_spin)
       /\ (\E t \in MThreads : MutexLockSwap(t)) => HasAcquire(MutexOrdering.lock_swap)
       /\ (\E t \in SThreads : SpinLockSwap(t)) => HasAcquire(SpinOrdering.lock_swap)
       /\ (\E t \in RThreads : RwReadCas(t)) => HasAcquire(RwOrdering.read_cas)
       /\ (\E t \in RThreads : RwWriteCas(t)) => HasAcquire(RwOrdering.write_cas)
       /\ ChanReadLoad => HasAcquire(ChanOrdering.read_load)
       /\ RelaxedOnlyOnFailure(MutexOrdering) /\ RelaxedOnlyOnFailure(SpinOrdering)
       /\ RelaxedOnlyOnFailure(RwOrdering) /\ RelaxedOnlyOnFailure(ArcOrdering)
       /\ RelaxedOnlyOnFailure(ChanOrdering)]_vars

\* live ReadGuards of the threads of S
RECURSIVE RwGuardsOf(_)
RwGuardsOf(S) ==
    IF S = {} THEN 0
    ELSE LET t == CHOOSE x \in S : TRUE IN rheld[t] + RwGuardsOf(S \ {t})

RwLiveReadGuards == RwGuardsOf(RThreads)

RwWriteGuardLive == \E t \in RThreads : wheld[t]

\* C15: the state word tells the occupancy (in the runs in which the reader
\* count has not wrapped): it is the maximum exactly when a WriteGuard is
\* live; otherwise it is 2*r or 2*r + 1 for r live ReadGuards, odd only if a
\* writer is waiting inside write(), and odd whenever a writer waits inside
\* write() for live ReadGuards to go.
C15_StateEncodesOccupancy ==
    ~rwwrapped =>
        /\ RwWriteGuardLive <=> rwstate = U32Max
        /\ ~RwWriteGuardLive =>
             /\ rwstate \in {2 * RwLiveReadGuards, 2 * RwLiveReadGuards + 1}
             /\ rwstate % 2 = 1 => \E w \in RThreads : RwWriterWaiting(w)
             /\ (RwLiveReadGuards > 0 /\ \E w \in RThreads : RwWriterWaiting(w))
                  => rwstate = 2 * RwLiveReadGuards + 1

\* C16: the value write() keeps after a failed CAS, and later passes to the
\* park on the writer beacon as the expected value, is the value of the
\* writer beacon at that load.
C16_WriteParksOnBeaconValue ==
    [][\A t \in RThreads : RwWriteLoadBeacon(t) => rwwb'[t] = beacon]_vars

\* a WriteGuard drop has stored 0 and its wake_all is still to come
RwWakeAllOwed == \E w \in RThreads : rwpc[w] \in {"wd_inc", "wd_wake", "wd_wakeall"}

\* read() has died on the reader count's ceiling (C7)
RwDied(t) == rwpc[t] \in {"panic_too_many", "panic_overflow"}

MutexParked == {u \in MThreads : mpc[u] = "parked"}

\* an unlock has still to issue its wake_one, or a thread that left the park
\* loop's wait has still to execute its swap(2)
MutexRelockOwed == \E u \in MThreads : mpc[u] \in {"wake", "swap"}

\* C18 as stated: whenever unlock's swap runs while some thread is parked it
\* observes 2 and goes on to wake_one, and it skips the wake only when it
\* observes 1.
C18_UnlockNotifiesParked ==
    [][\A t \in MThreads :
          /\ (MutexUnlock(t) /\ MutexParked # {}) => (mstate = 2 /\ mpc'[t] = "wake")
          /\ (MutexUnlock(t) /\ mpc'[t] # "wake") => mstate = 1]_vars

\* C18 amended: unlock issues its one wake_one exactly when its swap observes
\* 2 and none when it observes 1; and it observes 2 whenever it runs while a
\* thread is parked, unless an earlier unlock's wake_one is still to be
\* issued or a thread past the wait has still to redo its swap(2).
C18_UnlockNotifiesUnlessRelockOwed ==
    [][\A t \in MThreads :
          /\ (MutexUnlock(t) /\ MutexParked # {} /\ ~MutexRelockOwed)
                => (mstate = 2 /\ mpc'[t] = "wake")
          /\ (MutexUnlock(t) /\ mpc'[t] = "wake") => mstate = 2
          /\ (MutexUnlock(t) /\ mpc'[t] # "wake") => mstate = 1]_vars

\* an unlock has observed 2 with a thread parked and nothing else owed, and
\* is about to issue its wake_one
C18_Witness ==
    /\ MutexParked # {}
    /\ mstate = 0
    /\ Cardinality({u \in MThreads : mpc[u] = "wake"}) = 1
    /\ \A u \in MThreads : mpc[u] # "swap"

\* C19: after a completed receive() the state is READ, and the state is
\* READY or later only with the payload written in the cell.
C19_SpinChanWalksToRead ==
    /\ screcvs > 0 => scstate = READ
    /\ scstate \in {READY, READING, READ} => scdata # "uninit"

\* C20: while the storage is live no drop executes its fetch_sub with the
\* counter at 0, and the counter never becomes the all-ones value.
C20_ArcCountNeverWraps ==
    [][(ArcDrop /\ adestroyed = 0) => (acount > 0 /\ acount' # 2^ArcBits - 1)]_vars

\* C21: at most one SpinLock Guard is live at any time, also when unlock()
\* is called directly by the guard's holder or by any other thread.
C21_SpinExclusiveWithUnlock ==
    Cardinality({t \in SThreads : SpinGuardLive(t)}) <= 1

====
